---- MODULE Spec2Model ----
(***************************************************************************)
(* KeyMultiValueDB<KeyT, ValueT>: a many-to-many key/value relation with   *)
(* occurrence counts, stored in three SQLite tables (keys_store,           *)
(* values_store, key_value_store) and two connection-scoped staging tables *)
(* (keys_temp_store, values_temp_store).                                   *)
(*                                                                         *)
(* The state of one store instance is the record `st`:                     *)
(*   keys_store       rows [id, key]      (key UNIQUE, id AUTOINCREMENT)   *)
(*   values_store     rows [id, value]    (value UNIQUE, id AUTOINCREMENT) *)
(*   key_value_store  rows [key_id, value_id, value_count]                 *)
(*                    PRIMARY KEY (key_id, value_id), both columns foreign *)
(*                    keys with ON DELETE CASCADE                          *)
(*   keys_temp_store, values_temp_store   the staged keys / values         *)
(*   seq_keys, seq_values                 the AUTOINCREMENT counters       *)
(*   insert_key_value_stmt  the bindings m_stmt_insert_key_value was last  *)
(*                    stepped with when that step failed and the statement *)
(*                    has not been reset since (<<>> when it is ready)     *)
(* Every private db_* method is an operator from a state to a result       *)
(* [st, err]; err = 0 is a normal return, anything else is the error code  *)
(* of the sqlite_exception that leaves the method.                         *)
(***************************************************************************)
EXTENDS Integers, Sequences, FiniteSets, TLC

KeyT == {1, 2}
ValueT == {"a", "b"}

\* Longest flat source container (number of pairs).
MaxLen == 3
\* Most values in a key -> collection source container, all keys together.
MaxVals == 2
\* Largest value_count a call may leave in a row.
MaxCount == 2
\* Largest id a call may leave in an AUTOINCREMENT counter.
MaxId == 2
\* Width in bits of std::size_t and of SQLite's INTEGER (64 in the build).
SizeBits == 4
\* Most calls of sqlite3_open_v2 an instance makes.
MaxHandles == 3

SQLITE_OK == 0
SQLITE_ERROR == 1
SQLITE_BUSY == 5
SQLITE_IOERR == 10
SQLITE_FULL == 13
SQLITE_CONSTRAINT == 19
\* error_code() of a sqlite_exception built from a message alone.
NO_CODE == -1

\* The threads that call the methods of one store instance.
Threads == {1, 2}

VARIABLE st

vars == <<st>>

R(s, e) == [st |-> s, err |-> e]

----------------------------------------------------------------------------
(* Source containers *)

RECURSIVE SeqsUpTo(_, _)
SeqsUpTo(S, n) ==
    IF n = 0 THEN {<<>>}
    ELSE LET shorter == SeqsUpTo(S, n - 1)
         IN shorter \cup {Append(s, x) : s \in {t \in shorter : Len(t) = n - 1}, x \in S}

Pairs == KeyT \X ValueT

\* std::multimap<KeyT, ValueT>: pairs in non-decreasing key order, equal keys
\* in insertion order.
FlatContainers ==
    {c \in SeqsUpTo(Pairs, MaxLen) :
        \A i \in 1..(Len(c) - 1) : c[i][1] <= c[i + 1][1]}

\* std::map<KeyT, std::vector<ValueT>>: entries <<key, values>> in increasing
\* key order, one entry per key.
RECURSIVE TotalLen(_)
TotalLen(c) == IF c = <<>> THEN 0 ELSE Len(Head(c)[2]) + TotalLen(Tail(c))

NestedContainers ==
    {c \in SeqsUpTo(KeyT \X SeqsUpTo(ValueT, MaxVals), Cardinality(KeyT)) :
        /\ \A i \in 1..(Len(c) - 1) : c[i][1] < c[i + 1][1]
        /\ TotalLen(c) <= MaxVals}

\* The orders in which an unordered container holding the elements S may be
\* iterated.
Orders(S) ==
    {o \in SeqsUpTo(S, Cardinality(S)) :
        Len(o) = Cardinality(S) /\ \A i, j \in 1..Len(o) : i # j => o[i] # o[j]}

\* The keys of a container's entries.
KeysOf(container) == {container[i][1] : i \in 1..Len(container)}

\* The values in the collections of a key -> collection container.
ValuesOf(container) ==
    UNION {{container[i][2][j] : j \in 1..Len(container[i][2])} : i \in 1..Len(container)}

RECURSIVE Filter(_, _)
Filter(o, S) ==
    IF o = <<>> THEN <<>>
    ELSE IF Head(o) \in S THEN <<Head(o)>> \o Filter(Tail(o), S)
    ELSE Filter(Tail(o), S)

----------------------------------------------------------------------------
(* Prepared statements *)

\* An INSERT INTO keys_store that takes a key a row already has.
insert_key_again(s, key) ==
    R([s EXCEPT !.keys_store = @ \cup {[id |-> s.seq_keys + 1, key |-> key]},
                !.seq_keys = @ + 1], SQLITE_OK)

\* INSERT OR IGNORE INTO keys_store (key) VALUES (?): a new row takes the next
\* AUTOINCREMENT id, which no earlier row had. (SQLite spends an id on an
\* ignored insert too; ids are only ever compared for equality, so the model
\* numbers the rows that were created.)
db_insert_key(s, key) ==
    IF \E r \in s.keys_store : r.key = key THEN R(s, SQLITE_OK)
    ELSE R([s EXCEPT !.keys_store = @ \cup {[id |-> s.seq_keys + 1, key |-> key]},
                     !.seq_keys = @ + 1], SQLITE_OK)

\* INSERT OR IGNORE INTO values_store (value) VALUES (?)
db_insert_value(s, value) ==
    IF \E r \in s.values_store : r.value = value THEN R(s, SQLITE_OK)
    ELSE R([s EXCEPT !.values_store = @ \cup {[id |-> s.seq_values + 1, value |-> value]},
                     !.seq_values = @ + 1], SQLITE_OK)

db_get_key_id(s, key) ==
    IF \E r \in s.keys_store : r.key = key
    THEN (CHOOSE r \in s.keys_store : r.key = key).id
    ELSE -1

db_get_value_id(s, value) ==
    IF \E r \in s.values_store : r.value = value
    THEN (CHOOSE r \in s.values_store : r.value = value).id
    ELSE -1

db_insert_key_temp(s, key) ==
    R([s EXCEPT !.keys_temp_store = @ \cup {key}], SQLITE_OK)

db_insert_value_temp(s, value) ==
    R([s EXCEPT !.values_temp_store = @ \cup {value}], SQLITE_OK)

\* The values of std::size_t.
SizeT == 0 .. (2 ^ SizeBits - 1)

\* bind_value of an integral type: static_cast<int64_t>(value).
to_int64(value) == IF value >= 2 ^ (SizeBits - 1) THEN value - 2 ^ SizeBits ELSE value

\* extract_column<size_t>: static_cast<size_t>(sqlite3_column_int64(..)).
to_size_t(column) == IF column < 0 THEN column + 2 ^ SizeBits ELSE column

db_get_value_count(s, key_id, value_id) ==
    IF \E r \in s.key_value_store : r.key_id = key_id /\ r.value_id = value_id
    THEN to_size_t((CHOOSE r \in s.key_value_store :
                        r.key_id = key_id /\ r.value_id = value_id).value_count)
    ELSE 0

\* bind_value on a statement whose last step failed and that was not reset
\* since returns false, which db_insert_key_value does not look at: the
\* statement keeps the bindings of the failed step, and the next step resets
\* it and runs with them.
BoundKeyValue(s, key_id, value_id) ==
    IF s.insert_key_value_stmt # <<>> THEN s.insert_key_value_stmt
    ELSE <<key_id, value_id>>

\* INSERT INTO key_value_store (key_id, value_id) VALUES (?, ?): the row gets
\* value_count 1 (DEFAULT 1); a row with the same (key_id, value_id), or an id
\* that no keys_store / values_store row has, is a constraint violation, and
\* a row for which the file would have to grow beyond its limit is
\* SQLITE_FULL. The reset and clear_bindings calls come after execute and are
\* skipped by the exception.
db_insert_key_value(s, key_id, value_id) ==
    LET b == BoundKeyValue(s, key_id, value_id)
    IN IF \/ \E r \in s.key_value_store : r.key_id = b[1] /\ r.value_id = b[2]
          \/ ~\E r \in s.keys_store : r.id = b[1]
          \/ ~\E r \in s.values_store : r.id = b[2]
       THEN R([s EXCEPT !.insert_key_value_stmt = b], SQLITE_CONSTRAINT)
       ELSE IF s.full THEN R([s EXCEPT !.insert_key_value_stmt = b], SQLITE_FULL)
       ELSE R([s EXCEPT !.key_value_store =
                            @ \cup {[key_id |-> b[1], value_id |-> b[2], value_count |-> 1]},
                        !.insert_key_value_stmt = <<>>], SQLITE_OK)

\* UPDATE key_value_store SET value_count = ? WHERE key_id = ? AND value_id = ?
db_set_value_count(s, key_id, value_id, value_count) ==
    R([s EXCEPT !.key_value_store =
           {IF r.key_id = key_id /\ r.value_id = value_id
            THEN [r EXCEPT !.value_count = to_int64(value_count)] ELSE r : r \in @}],
      SQLITE_OK)

\* A DELETE of keys_store rows that leaves key_value_store alone.
delete_keys_only(s, gone) == [s EXCEPT !.keys_store = @ \ gone]

\* DELETE of the keys_store rows `gone`; ON DELETE CASCADE takes the
\* key_value_store rows that reference them.
DeleteKeyRows(s, gone) ==
    [s EXCEPT !.keys_store = @ \ gone,
              !.key_value_store = {r \in @ : r.key_id \notin {g.id : g \in gone}}]

\* DELETE of the values_store rows `gone`, with the same cascade.
DeleteValueRows(s, gone) ==
    [s EXCEPT !.values_store = @ \ gone,
              !.key_value_store = {r \in @ : r.value_id \notin {g.id : g \in gone}}]

\* A purge that forgets the Value table.
purge_keys_only(s) ==
    R(DeleteKeyRows(s, {r \in s.keys_store : r.key \notin s.keys_temp_store}), SQLITE_OK)

\* A purge that forgets the Key table.
purge_values_only(s) ==
    R(DeleteValueRows(s, {r \in s.values_store : r.value \notin s.values_temp_store}),
      SQLITE_OK)

\* A clearing of the staging tables that deletes nothing.
keep_temp_tables(s) == R(s, SQLITE_OK)

\* DELETE FROM keys_store WHERE key NOT IN (SELECT key FROM keys_temp_store);
\* DELETE FROM values_store WHERE value NOT IN (SELECT value FROM values_temp_store)
db_purge_old_data(s) ==
    LET s1 == DeleteKeyRows(s, {r \in s.keys_store : r.key \notin s.keys_temp_store})
        s2 == DeleteValueRows(s1, {r \in s1.values_store : r.value \notin s1.values_temp_store})
    IN R(s2, SQLITE_OK)

\* A clearing that forgets values_temp_store.
clear_keys_temp_only(s) == R([s EXCEPT !.keys_temp_store = {}], SQLITE_OK)

\* DELETE FROM keys_temp_store; DELETE FROM values_temp_store
db_clear_temp_tables(s) ==
    R([s EXCEPT !.keys_temp_store = {}, !.values_temp_store = {}], SQLITE_OK)

\* A clearing that empties key_value_store alone.
clear_associations_only(s) == R([s EXCEPT !.key_value_store = {}], SQLITE_OK)

\* DELETE FROM keys_store; DELETE FROM values_store; DELETE FROM key_value_store
db_clear(s) ==
    LET s1 == DeleteKeyRows(s, s.keys_store)
        s2 == DeleteValueRows(s1, s1.values_store)
    IN R([s2 EXCEPT !.key_value_store = {}], SQLITE_OK)

\* A removal that takes one occurrence of the pair away and deletes the row
\* only with the last one.
remove_one_occurrence(s, key, value) ==
    LET key_id == db_get_key_id(s, key)
        value_id == db_get_value_id(s, value)
    IN R([s EXCEPT !.key_value_store =
             {IF r.key_id = key_id /\ r.value_id = value_id
              THEN [r EXCEPT !.value_count = @ - 1] ELSE r :
                 r \in {x \in @ : ~(x.key_id = key_id /\ x.value_id = value_id
                                    /\ x.value_count <= 1)}}],
         SQLITE_OK)

\* DELETE FROM key_value_store WHERE key_id = (SELECT id .. WHERE key = ?)
\*   AND value_id = (SELECT id .. WHERE value = ?)
db_remove_key_value(s, key, value) ==
    R([s EXCEPT !.key_value_store =
           {r \in @ : ~(r.key_id = db_get_key_id(s, key)
                        /\ r.value_id = db_get_value_id(s, value))}],
      SQLITE_OK)

\* A removal of the key's key_value_store rows that keeps its keys_store row.
remove_associations_only(s, key) ==
    R([s EXCEPT !.key_value_store = {r \in @ : r.key_id # db_get_key_id(s, key)}],
      SQLITE_OK)

\* DELETE FROM keys_store WHERE key = ?
db_remove_all_values(s, key) ==
    R(DeleteKeyRows(s, {r \in s.keys_store : r.key = key}), SQLITE_OK)

\* An UPDATE whose WHERE names only the key.
set_count_of_key(s, key, value, value_count) ==
    R([s EXCEPT !.key_value_store =
           {IF r.key_id = db_get_key_id(s, key)
            THEN [r EXCEPT !.value_count = to_int64(value_count)] ELSE r : r \in @}],
      SQLITE_OK)

\* UPDATE key_value_store SET value_count = ? WHERE key_id = (SELECT ..) AND
\*   value_id = (SELECT ..)
db_set_value_count_key_value(s, key, value, value_count) ==
    db_set_value_count(s, db_get_key_id(s, key), db_get_value_id(s, value), value_count)

\* SELECT value_count .. WHERE key_id = (SELECT ..) AND value_id = (SELECT ..)
db_get_value_count_key_value(s, key, value) ==
    db_get_value_count(s, db_get_key_id(s, key), db_get_value_id(s, value))

\* SELECT COUNT(*) FROM keys_store
db_count_key(s) == Cardinality(s.keys_store)

\* The rows of m_stmt_load: keys_store JOIN key_value_store JOIN values_store.
LoadRows(s) ==
    {<<k.key, v.value, to_size_t(r.value_count)>> :
        <<k, v, r>> \in {t \in s.keys_store \X s.values_store \X s.key_value_store :
                            t[1].id = t[3].key_id /\ t[2].id = t[3].value_id}}

\* db_load into a std::multimap: add_value emplaces each row's pair
\* value_count times; the result is the multiset of pairs, pair -> occurrences.
db_load(s) ==
    [p \in Pairs |->
        LET rows == {t \in LoadRows(s) : t[1] = p[1] /\ t[2] = p[2]}
        IN IF rows = {} THEN 0 ELSE (CHOOSE t \in rows : TRUE)[3]]

\* A container of values (std::vector, std::list) as a caller passes it to
\* find: value -> the number of its elements equal to that value.
ValueContainers == [ValueT -> 0 .. 1]

\* add_value for a container of values: emplaces value value_count times.
add_value(container, value, value_count) ==
    [container EXCEPT ![value] = @ + value_count]

RECURSIVE AddRows(_, _)
AddRows(container, rows) ==
    IF rows = {} THEN container
    ELSE LET t == CHOOSE t \in rows : TRUE
         IN AddRows(add_value(container, t[2], t[3]), rows \ {t})

\* db_find: the rows of m_stmt_find (the join of m_stmt_load WHERE k.key = ?)
\* are added to the caller's container as it is; the result is
\* !container.empty().
db_find(s, key, container) ==
    LET filled == AddRows(container, {t \in LoadRows(s) : t[1] = key})
    IN [found |-> \E value \in ValueT : filled[value] > 0, container |-> filled]

----------------------------------------------------------------------------
(* insert and append *)

\* A body that starts an existing row's count again at 1.
count_restarted(s, key_id, value_id) ==
    IF db_get_value_count(s, key_id, value_id) # 0
    THEN db_set_value_count(s, key_id, value_id, 1)
    ELSE db_insert_key_value(s, key_id, value_id)

\* The body shared by db_insert and both db_append loops once the ids are
\* known: raise the count of an existing row, or insert the row.
CountOrInsert(s, key_id, value_id) ==
    LET value_count == db_get_value_count(s, key_id, value_id)
    IN IF value_count # 0
       THEN db_set_value_count(s, key_id, value_id, value_count + 1)
       ELSE db_insert_key_value(s, key_id, value_id)

db_insert(s, key, value) ==
    LET s1 == db_insert_key(s, key).st
        s2 == db_insert_value(s1, value).st
        key_id == db_get_key_id(s2, key)
        value_id == db_get_value_id(s2, value)
    IN IF key_id = -1 THEN R(s2, NO_CODE)
       ELSE IF value_id = -1 THEN R(s2, NO_CODE)
       ELSE CountOrInsert(s2, key_id, value_id)

RECURSIVE db_append(_, _)
db_append(s, container) ==
    IF container = <<>> THEN R(s, SQLITE_OK)
    ELSE LET pair == Head(container)
             s1 == db_insert_key(s, pair[1]).st
             s2 == db_insert_value(s1, pair[2]).st
             key_id == db_get_key_id(s2, pair[1])
             value_id == db_get_value_id(s2, pair[2])
             r == IF key_id = -1 \/ value_id = -1 THEN R(s2, SQLITE_OK)
                  ELSE CountOrInsert(s2, key_id, value_id)
         IN IF r.err # SQLITE_OK THEN r ELSE db_append(r.st, Tail(container))

RECURSIVE AppendValues(_, _, _)
AppendValues(s, key_id, values) ==
    IF values = <<>> THEN R(s, SQLITE_OK)
    ELSE LET s1 == db_insert_value(s, Head(values)).st
             value_id == db_get_value_id(s1, Head(values))
             r == IF value_id = -1 THEN R(s1, SQLITE_OK)
                  ELSE CountOrInsert(s1, key_id, value_id)
         IN IF r.err # SQLITE_OK THEN r ELSE AppendValues(r.st, key_id, Tail(values))

RECURSIVE db_append_nested(_, _)
db_append_nested(s, container) ==
    IF container = <<>> THEN R(s, SQLITE_OK)
    ELSE LET pair == Head(container)
             s1 == db_insert_key(s, pair[1]).st
             key_id == db_get_key_id(s1, pair[1])
             r == IF key_id = -1 THEN R(s1, SQLITE_OK)
                  ELSE AppendValues(s1, key_id, pair[2])
         IN IF r.err # SQLITE_OK THEN r ELSE db_append_nested(r.st, Tail(container))

----------------------------------------------------------------------------
(* reconcile *)

\* std::find_if over the vector of <<value, count>>: the index of value, or 0.
FindIndex(vec, value) ==
    IF \E i \in 1..Len(vec) : vec[i][1] = value
    THEN CHOOSE i \in 1..Len(vec) :
             vec[i][1] = value /\ \A j \in 1..(i - 1) : vec[j][1] # value
    ELSE 0

\* find_or_insert followed by it->second++.
find_or_insert(vec, value) ==
    LET i == FindIndex(vec, value)
    IN IF i = 0 THEN Append(vec, <<value, 1>>)
       ELSE [vec EXCEPT ![i] = <<value, vec[i][2] + 1>>]

\* temp_container of the flat db_reconcile: key -> vector of <<value, count>>.
RECURSIVE CollectFlat(_, _)
CollectFlat(container, tc) ==
    IF container = <<>> THEN tc
    ELSE LET pair == Head(container)
             vec == IF pair[1] \in DOMAIN tc THEN tc[pair[1]] ELSE <<>>
         IN CollectFlat(Tail(container),
                        (pair[1] :> find_or_insert(vec, pair[2])) @@ tc)

\* One entry of the key -> collection db_reconcile's collection loop. it_key
\* is looked up once, before the values of the entry are walked.
RECURSIVE CollectValues(_, _, _, _)
CollectValues(tc, key, it_key_found, values) ==
    IF values = <<>> THEN tc
    ELSE LET value == Head(values)
             inner == IF key \in DOMAIN tc THEN tc[key] ELSE <<>>
             inner2 == IF ~it_key_found THEN (value :> 1) @@ inner
                       ELSE IF value \notin DOMAIN inner THEN (value :> 1) @@ inner
                       ELSE (value :> (inner[value] + 1)) @@ inner
         IN CollectValues((key :> inner2) @@ tc, key, it_key_found, Tail(values))

\* temp_container of the key -> collection db_reconcile: key -> (value -> count).
RECURSIVE CollectNested(_, _)
CollectNested(container, tc) ==
    IF container = <<>> THEN tc
    ELSE LET pair == Head(container)
         IN CollectNested(Tail(container),
                          CollectValues(tc, pair[1], pair[1] \in DOMAIN tc, pair[2]))

\* The first loop over temp_container: each key into keys_store and
\* keys_temp_store, each of its values into values_store and
\* values_temp_store. `items` is temp_container in iteration order, each item
\* <<key, <<value, count>> ...>>.
RECURSIVE StageValues(_, _)
StageValues(s, vec) ==
    IF vec = <<>> THEN s
    ELSE LET s1 == db_insert_value(s, Head(vec)[1]).st
             s2 == db_insert_value_temp(s1, Head(vec)[1]).st
         IN StageValues(s2, Tail(vec))

RECURSIVE StageItems(_, _)
StageItems(s, items) ==
    IF items = <<>> THEN s
    ELSE LET s1 == db_insert_key(s, Head(items)[1]).st
             s2 == db_insert_key_temp(s1, Head(items)[1]).st
         IN StageItems(StageValues(s2, Head(items)[2]), Tail(items))

\* The last loop over temp_container: each pair's value_count is set.
RECURSIVE SetValueCounts(_, _, _)
SetValueCounts(s, key_id, vec) ==
    IF vec = <<>> THEN s
    ELSE LET value_id == db_get_value_id(s, Head(vec)[1])
         IN SetValueCounts(IF value_id = -1 THEN s
                           ELSE db_set_value_count(s, key_id, value_id, Head(vec)[2]).st,
                           key_id, Tail(vec))

RECURSIVE SetItemCounts(_, _)
SetItemCounts(s, items) ==
    IF items = <<>> THEN s
    ELSE LET key_id == db_get_key_id(s, Head(items)[1])
         IN SetItemCounts(IF key_id = -1 THEN s
                          ELSE SetValueCounts(s, key_id, Head(items)[2]),
                          Tail(items))

\* The loop over the flat container that creates the missing rows.
RECURSIVE CreatePairs(_, _)
CreatePairs(s, container) ==
    IF container = <<>> THEN R(s, SQLITE_OK)
    ELSE LET pair == Head(container)
             key_id == db_get_key_id(s, pair[1])
             value_id == db_get_value_id(s, pair[2])
             r == IF key_id = -1 THEN R(s, NO_CODE)
                  ELSE IF value_id = -1 THEN R(s, NO_CODE)
                  ELSE IF db_get_value_count(s, key_id, value_id) = 0
                  THEN db_insert_key_value(s, key_id, value_id)
                  ELSE R(s, SQLITE_OK)
         IN IF r.err # SQLITE_OK THEN r ELSE CreatePairs(r.st, Tail(container))

\* temp_container (key -> vector) in the iteration order `order` of its keys.
FlatItems(tc, order) ==
    [i \in 1..Len(order) |-> <<order[i], tc[order[i]]>>]

\* The loop over the key -> collection container that creates the missing
\* rows.
RECURSIVE CreateValues(_, _, _)
CreateValues(s, key_id, values) ==
    IF values = <<>> THEN R(s, SQLITE_OK)
    ELSE LET value_id == db_get_value_id(s, Head(values))
             r == IF value_id = -1 THEN R(s, SQLITE_OK)
                  ELSE IF db_get_value_count(s, key_id, value_id) # 0 THEN R(s, SQLITE_OK)
                  ELSE db_insert_key_value(s, key_id, value_id)
         IN IF r.err # SQLITE_OK THEN r ELSE CreateValues(r.st, key_id, Tail(values))

RECURSIVE CreateNested(_, _)
CreateNested(s, container) ==
    IF container = <<>> THEN R(s, SQLITE_OK)
    ELSE LET key_id == db_get_key_id(s, Head(container)[1])
             r == IF key_id = -1 THEN R(s, SQLITE_OK)
                  ELSE CreateValues(s, key_id, Head(container)[2])
         IN IF r.err # SQLITE_OK THEN r ELSE CreateNested(r.st, Tail(container))

\* temp_container (key -> (value -> count)) in the iteration order `order` of
\* its keys and `vorder` of the values of each key.
NestedItems(tc, order, vorder) ==
    [i \in 1..Len(order) |->
        LET inner == tc[order[i]]
            vs == Filter(vorder, DOMAIN inner)
        IN <<order[i], [j \in 1..Len(vs) |-> <<vs[j], inner[vs[j]]>>]>>]

\* What another store instance on the same file does to it while this one
\* is between two statements: nothing (other = <<>>), or remove(key), committed
\* before the loop `at` starts (other = <<at, key>>). Only a call without a
\* transaction leaves the file unlocked between its statements.
OtherRemoves(s, other, at) ==
    IF other # <<>> /\ other[1] = at THEN db_remove_all_values(s, other[2]).st
    ELSE s

\* The body of both db_reconcile methods after temp_container is filled:
\* staging, creation of the missing rows, purge, count setting. The catch
\* block resets statements and rethrows.
db_reconcile_body(s, container, items, nested, other) ==
    LET s1 == db_clear_temp_tables(s).st
        s2 == OtherRemoves(StageItems(s1, items), other, "create")
        r3 == IF nested THEN CreateNested(s2, container) ELSE CreatePairs(s2, container)
    IN IF r3.err # SQLITE_OK THEN r3
       ELSE LET s4 == db_purge_old_data(r3.st).st
                s5 == OtherRemoves(db_clear_temp_tables(s4).st, other, "count")
            IN R(SetItemCounts(s5, items), SQLITE_OK)

\* db_reconcile of a flat container; `order` is the iteration order of
\* temp_container's keys.
db_reconcile(s, container, order) ==
    db_reconcile_body(s, container,
                      FlatItems(CollectFlat(container, <<>>), order), FALSE, <<>>)

\* db_reconcile of a key -> collection container.
db_reconcile_nested(s, container, order, vorder) ==
    db_reconcile_body(s, container,
                      NestedItems(CollectNested(container, <<>>), order, vorder),
                      TRUE, <<>>)

\* The results db_reconcile may give: one for each iteration order of the
\* unordered temp_container.
Reconciled(s, container) ==
    {db_reconcile(s, container, order) : order \in Orders(KeysOf(container))}

ReconciledNested(s, container) ==
    {db_reconcile_nested(s, container, order, vorder) :
        order \in Orders(DOMAIN CollectNested(container, <<>>)),
        vorder \in Orders(ValuesOf(container))}

----------------------------------------------------------------------------
(* Public operations *)

\* ROLLBACK in the catch block of execute_in_transaction, entered with the
\* exception of code err. A step that fails with SQLITE_FULL makes the engine
\* roll the transaction back by itself; ROLLBACK then fails ("no transaction
\* is active") and execute() throws from inside the catch block, in place
\* of `throw e`.
db_rollback(err) ==
    IF err = SQLITE_FULL THEN SQLITE_ERROR ELSE err

\* execute_in_transaction: BEGIN, the operation, COMMIT; an exception rolls
\* the tables back to what they were at BEGIN. A prepared statement is not
\* part of the database: it stays as the operation left it.
execute_in_transaction(s, r) ==
    IF r.err = SQLITE_OK THEN r
    ELSE R([s EXCEPT !.insert_key_value_stmt = r.st.insert_key_value_stmt],
           db_rollback(r.err))

\* The overloads that take no transaction mode lock the mutex and call the
\* db_* method: each statement commits on its own.
Run(s, r, txn) ==
    IF txn THEN execute_in_transaction(s, r) ELSE r

\* The transaction statements an overload runs around its db_* method, whose
\* exception, if any, carries err: BEGIN and COMMIT or ROLLBACK in
\* execute_in_transaction, none in the overloads without a mode.
TransactionStatements(txn, err) ==
    IF txn THEN <<"BEGIN", IF err = SQLITE_OK THEN "COMMIT" ELSE "ROLLBACK">>
    ELSE <<>>

\* The states of the database file that db_reconcile commits, one after the
\* other, when no transaction is open: each statement is a transaction of
\* its own, so the file holds what the loops have done so far.
ReconcileCommits(s, container, order) ==
    LET items == FlatItems(CollectFlat(container, <<>>), order)
        s1 == db_clear_temp_tables(s).st
        s2 == StageItems(s1, items)
        r3 == CreatePairs(s2, container)
        s4 == db_purge_old_data(r3.st).st
        s5 == db_clear_temp_tables(s4).st
    IN {s}
       \cup {StageItems(s1, SubSeq(items, 1, n)) : n \in 0..Len(items)}
       \cup {CreatePairs(s2, SubSeq(container, 1, n)).st : n \in 0..Len(container)}
       \cup IF r3.err # SQLITE_OK THEN {}
            ELSE {s4} \cup {SetItemCounts(s5, SubSeq(items, 1, n)) : n \in 0..Len(items)}

\* The states of the database file that another connection may read while
\* reconcile runs and after it: with a transaction mode, the state at BEGIN
\* and the state at COMMIT or ROLLBACK.
ReadableDuring(s, container, order, txn) ==
    IF txn THEN {s, execute_in_transaction(s, db_reconcile(s, container, order)).st}
    ELSE ReconcileCommits(s, container, order)

\* The bounds of the model: no counter beyond MaxId, no count beyond MaxCount.
InBounds(s) ==
    /\ s.seq_keys <= MaxId
    /\ s.seq_values <= MaxId
    /\ \A r \in s.key_value_store : 0 <= r.value_count /\ r.value_count <= MaxCount

\* Config: the fields that tell two configurations of the model apart.
\* Config() has an empty db_path and use_async = false.
Paths == {"", "a.db"}

Configs == [db_path : Paths, use_async : BOOLEAN]

DefaultConfig == [db_path |-> "", use_async |-> FALSE]

\* The native handles sqlite3_open_v2 has returned, by the order of the calls.
Handles == 1..MaxHandles

\* A default-constructed instance after set_config(Config()) and connect():
\* the tables exist and are empty, the handle is the first one opened, its
\* statements are prepared and no background task was launched.
\*   m_config_new, m_config, m_config_update   the staged and the active
\*                 configuration and the pending-update flag
\*   m_sqlite_db   the handle the instance holds, 0 for nullptr
\*   handles       the native handles that are open in the engine:
\*                 [id, config, stmts], stmts telling whether prepared
\*                 statements of the handle have not been finalized
\*   seq_handles   the number of handles opened so far
\*   tasks         handle -> where the process() launched by the connect()
\*                 that opened it is: "none", "start", "locked", "unlocked",
\*                 "done"
\*   m_future      the task m_future refers to, 0 when it is not valid
Connected ==
    [keys_store |-> {}, values_store |-> {}, key_value_store |-> {},
     keys_temp_store |-> {}, values_temp_store |-> {},
     seq_keys |-> 0, seq_values |-> 0, insert_key_value_stmt |-> <<>>,
     other_lock |-> FALSE, pc |-> "idle", arg |-> <<>>, thrown |-> SQLITE_OK,
     mutex |-> 0, running |-> [t \in Threads |-> "idle"], full |-> FALSE,
     issued |-> <<>>, autocommit |-> TRUE, snapshot |-> <<>>,
     m_config_new |-> DefaultConfig, m_config |-> DefaultConfig,
     m_config_update |-> FALSE, m_sqlite_db |-> 1,
     handles |-> {[id |-> 1, config |-> DefaultConfig, stmts |-> TRUE]},
     seq_handles |-> 1, tasks |-> [h \in Handles |-> "none"], m_future |-> 0]

Init == st = Connected

\* A call returns (normally or by an exception) and leaves the store in r.st.
Finish(r) ==
    /\ InBounds(r.st)
    /\ st' = r.st

\* What the two overloads of an operation, without and with a transaction
\* mode, make of the result r of its db_* method.
Overloads(s, r) == {Run(s, r, txn) : txn \in BOOLEAN}

insert ==
    \E key \in KeyT, value \in ValueT :
        \E r \in Overloads(st, db_insert(st, key, value)) : Finish(r)

append ==
    \E container \in FlatContainers :
        \E r \in Overloads(st, db_append(st, container)) : Finish(r)

append_nested ==
    \E container \in NestedContainers :
        \E r \in Overloads(st, db_append_nested(st, container)) : Finish(r)

reconcile(txn) ==
    \E container \in FlatContainers :
        \E r \in {Run(st, r0, txn) : r0 \in Reconciled(st, container)} : Finish(r)

reconcile_nested(txn) ==
    \E container \in NestedContainers :
        \E r \in {Run(st, r0, txn) : r0 \in ReconciledNested(st, container)} : Finish(r)

set_value_count ==
    \E key \in KeyT, value \in ValueT, value_count \in 0..MaxCount :
        \E r \in {db_set_value_count_key_value(st, key, value, value_count)} : Finish(r)

remove ==
    \E key \in KeyT, value \in ValueT :
        \E r \in {db_remove_key_value(st, key, value)} : Finish(r)

remove_key ==
    \E key \in KeyT :
        \E r \in {db_remove_all_values(st, key)} : Finish(r)

clear ==
    \E r \in Overloads(st, db_clear(st)) : Finish(r)

\* The store fed from flat containers of pairs. reconcile is called with a
\* transaction mode; NextStaging has the overload without one, whose failed
\* calls leave staged rows that no statement reads before the next
\* db_reconcile deletes them.
Next ==
    \/ insert
    \/ append
    \/ reconcile(TRUE)
    \/ set_value_count
    \/ remove
    \/ remove_key
    \/ clear

Spec == Init /\ [][Next]_vars

\* The store fed from key -> collection containers.
NextNested ==
    \/ insert
    \/ append_nested
    \/ reconcile_nested(TRUE)
    \/ set_value_count
    \/ remove
    \/ remove_key
    \/ clear

SpecNested == Init /\ [][NextNested]_vars

\* reconcile without a transaction mode: a failed call leaves its staged rows
\* and the rows it had already inserted behind.
NextStaging ==
    \/ insert
    \/ set_value_count
    \/ reconcile(FALSE)

SpecStaging == Init /\ [][NextStaging]_vars

----------------------------------------------------------------------------
(* insert without a transaction mode, statement by statement, on a file    *)
(* that another connection locks and unlocks.                              *)
(*   other_lock  another connection holds the lock of the database file    *)
(*   pc          the statement db_insert is about to run, "idle" outside   *)
(*               of a call                                                 *)
(*   arg         the <<key, value>> of the call                            *)
(*   thrown      the error code of the exception that ended the last call, *)
(*               SQLITE_OK when it returned normally                       *)

\* The statements of db_insert that go through execute(), and after each
\* the statement that follows it.
Executed == {"insert_key", "insert_value", "insert_key_value"}

\* The statements of db_insert that are stepped by step() directly.
Stepped == {"get_key_id", "get_value_id", "get_value_count"}

NextStatement(pc) ==
    CASE pc = "insert_key" -> "insert_value"
      [] pc = "insert_value" -> "get_key_id"
      [] pc = "get_key_id" -> "get_value_id"
      [] pc = "get_value_id" -> "get_value_count"
      [] pc = "get_value_count" -> "insert_key_value"
      [] pc = "insert_key_value" -> "idle"

\* The call ends: with the exception of code err, or normally.
Return(s, err) == [s EXCEPT !.pc = "idle", !.arg = <<>>, !.thrown = err]

\* Another connection to the file begins an exclusive transaction. It gets
\* the lock because this connection, in autocommit, holds none between two
\* statements.
other_begin ==
    /\ ~st.other_lock
    /\ st' = [st EXCEPT !.other_lock = TRUE]

other_commit ==
    /\ st.other_lock
    /\ st' = [st EXCEPT !.other_lock = FALSE]

\* insert(key, value) without a mode takes the mutex and enters db_insert.
\* The calls are those whose rows and counts stay within the bounds.
insert_call ==
    /\ st.pc = "idle"
    /\ \E key \in KeyT, value \in ValueT :
           /\ InBounds(db_insert(st, key, value).st)
           /\ st' = [st EXCEPT !.pc = "insert_key", !.arg = <<key, value>>,
                               !.thrown = SQLITE_OK]

\* execute(): a step that returns SQLITE_BUSY is followed by a sleep and
\* another step, so the statement runs once the lock is gone; the last
\* statement of db_insert is the one CountOrInsert chooses.
execute ==
    /\ st.pc \in Executed
    /\ ~st.other_lock
    /\ LET key == st.arg[1]
           value == st.arg[2]
           r == CASE st.pc = "insert_key" -> db_insert_key(st, key)
                  [] st.pc = "insert_value" -> db_insert_value(st, value)
                  [] st.pc = "insert_key_value" ->
                         CountOrInsert(st, db_get_key_id(st, key), db_get_value_id(st, value))
       IN /\ InBounds(r.st)
          /\ st' = IF r.err # SQLITE_OK \/ st.pc = "insert_key_value"
                   THEN Return(r.st, r.err)
                   ELSE [r.st EXCEPT !.pc = NextStatement(st.pc)]

\* db_get_key_id, db_get_value_id, db_get_value_count: one step(), whose
\* result is only compared with SQLITE_ROW, then reset(). After a step that
\* returned SQLITE_BUSY, sqlite3_reset returns SQLITE_BUSY and reset()
\* throws; an id that is not found is -1 and db_insert throws.
step ==
    /\ st.pc \in Stepped
    /\ LET found == CASE st.pc = "get_key_id" -> db_get_key_id(st, st.arg[1])
                      [] st.pc = "get_value_id" -> db_get_value_id(st, st.arg[2])
                      [] st.pc = "get_value_count" -> 0
       IN st' = IF st.other_lock THEN Return(st, SQLITE_BUSY)
                ELSE IF found = -1 THEN Return(st, NO_CODE)
                ELSE [st EXCEPT !.pc = NextStatement(st.pc)]

NextBusy ==
    \/ other_begin
    \/ other_commit
    \/ insert_call
    \/ execute
    \/ step

SpecBusy == Init /\ [][NextBusy]_vars

\* The thread inside a call keeps running: a statement that can be run or
\* stepped is run or stepped (execute() sleeps and steps again for as long
\* as the step returns SQLITE_BUSY, without a limit on the attempts), and
\* the other connection ends the transaction it began. Nothing obliges a
\* caller to call again, nor another connection to begin a transaction.
SpecBusyFair ==
    /\ SpecBusy
    /\ WF_vars(execute)
    /\ WF_vars(step)
    /\ WF_vars(other_commit)

----------------------------------------------------------------------------
(* A database file that may not grow.                                      *)
(*   full   key_value_store has no room for another row and the file has   *)
(*          reached its size limit (max_page_count, or the disk is full)   *)

disk_full ==
    /\ ~st.full
    /\ st' = [st EXCEPT !.full = TRUE]

disk_freed ==
    /\ st.full
    /\ st' = [st EXCEPT !.full = FALSE]

NextFull ==
    \/ insert
    \/ append
    \/ remove_key
    \/ disk_full
    \/ disk_freed

SpecFull == Init /\ [][NextFull]_vars

----------------------------------------------------------------------------
(* One instance called from several threads.                               *)
(*   mutex    the thread that holds m_sqlite_mutex, 0 when it is free      *)
(*   running  for each thread, the method whose bind / step / reset        *)
(*            sequence it is in, "idle" outside of a call                  *)

\* std::lock_guard<std::mutex> locker(m_sqlite_mutex)
lock_guard(s, t) == [s EXCEPT !.mutex = t]

\* count(): the guard, then db_count_key on m_stmt_count_key.
enter_count(t) ==
    /\ st.running[t] = "idle"
    /\ st.mutex = 0
    /\ st' = [lock_guard(st, t) EXCEPT !.running[t] = "count"]

\* insert(key, value): the guard, then db_insert.
enter_insert(t) ==
    /\ st.running[t] = "idle"
    /\ st.mutex = 0
    /\ \E key \in KeyT, value \in ValueT :
           LET r == db_insert(lock_guard(st, t), key, value)
           IN /\ InBounds(r.st)
              /\ st' = [r.st EXCEPT !.running[t] = "insert"]

\* remove(key): the guard, then db_remove_all_values.
enter_remove(t) ==
    /\ st.running[t] = "idle"
    /\ st.mutex = 0
    /\ \E key \in KeyT :
           st' = [db_remove_all_values(lock_guard(st, t), key).st
                     EXCEPT !.running[t] = "remove"]

\* The method returns and the guard's destructor unlocks the mutex.
leave(t) ==
    /\ st.running[t] \in {"count", "insert", "remove"}
    /\ st' = [st EXCEPT !.running[t] = "idle", !.mutex = 0]

\* empty(): db_count_key on m_stmt_count_key, with no guard.
enter_empty(t) ==
    /\ st.running[t] = "idle"
    /\ st' = [st EXCEPT !.running[t] = "empty"]

leave_empty(t) ==
    /\ st.running[t] = "empty"
    /\ st' = [st EXCEPT !.running[t] = "idle"]

NextThreads ==
    \/ \E t \in Threads : enter_count(t)
    \/ \E t \in Threads : enter_insert(t)
    \/ \E t \in Threads : enter_remove(t)
    \/ \E t \in Threads : leave(t)
    \/ \E t \in Threads : enter_empty(t)
    \/ \E t \in Threads : leave_empty(t)

SpecThreads == Init /\ [][NextThreads]_vars

----------------------------------------------------------------------------
(* execute_in_transaction, statement by statement.                         *)
(*   issued      the <<statement, result code>> pairs of the running call  *)
(*               of execute_in_transaction, or of the one that just left   *)
(*   autocommit  sqlite3_get_autocommit: FALSE while a transaction is open *)
(*   snapshot    what the open transaction found in the tables             *)

\* The pairs the calls of this specification insert and count.
TxnPairs == {<<1, "a">>, <<1, "b">>}

\* What a transaction's changes are made to, and a ROLLBACK restores.
TableNames ==
    {"keys_store", "values_store", "key_value_store", "keys_temp_store",
     "values_temp_store", "seq_keys", "seq_values"}

TablesOf(s) == [name \in TableNames |-> s[name]]

\* The engine ends the open transaction and undoes its changes.
RolledBack(s) ==
    [[name \in DOMAIN s |-> IF name \in TableNames THEN s.snapshot[name] ELSE s[name]]
        EXCEPT !.autocommit = TRUE, !.snapshot = <<>>]

Issue(s, statement, err) == [s EXCEPT !.issued = Append(@, <<statement, err>>)]

\* begin(): BEGIN through the public method; the transaction stays open when
\* the method returns.
begin ==
    /\ st.mutex = 0
    /\ st.autocommit
    /\ st' = [st EXCEPT !.autocommit = FALSE, !.snapshot = TablesOf(st), !.issued = <<>>]

\* commit(): COMMIT through the public method.
commit ==
    /\ st.mutex = 0
    /\ ~st.autocommit
    /\ st' = [st EXCEPT !.autocommit = TRUE, !.snapshot = <<>>]

\* insert(key, value, mode) enters execute_in_transaction, which locks the
\* mutex.
insert_in_transaction ==
    /\ st.mutex = 0
    /\ \E p \in TxnPairs :
           /\ InBounds(db_insert(st, p[1], p[2]).st)
           /\ st' = [lock_guard(st, 1) EXCEPT !.pc = "db_begin", !.arg = p,
                                              !.issued = <<>>, !.thrown = SQLITE_OK]

\* db_begin(mode): BEGIN fails inside an open transaction.
txn_begin ==
    /\ st.pc = "db_begin"
    /\ st' = IF st.autocommit
             THEN [Issue(st, "BEGIN", SQLITE_OK) EXCEPT
                       !.autocommit = FALSE, !.snapshot = TablesOf(st), !.pc = "operation"]
             ELSE [Issue(st, "BEGIN", SQLITE_ERROR) EXCEPT
                       !.thrown = SQLITE_ERROR, !.pc = "db_rollback"]

\* operation(): db_insert; its exception is caught. On SQLITE_FULL the engine
\* has rolled the transaction back by itself.
txn_operation ==
    /\ st.pc = "operation"
    /\ LET r == db_insert(st, st.arg[1], st.arg[2])
           s == IF r.err = SQLITE_FULL THEN RolledBack(r.st) ELSE r.st
       IN st' = [Issue(s, "operation", r.err) EXCEPT
                    !.thrown = r.err,
                    !.pc = IF r.err = SQLITE_OK THEN "db_commit" ELSE "db_rollback"]

\* db_commit() outside of the try block: its exception reaches the caller as
\* it is.
commit_outside_try ==
    /\ st.pc = "db_commit"
    /\ \/ st' = [Issue(st, "COMMIT", SQLITE_OK) EXCEPT
                    !.autocommit = TRUE, !.snapshot = <<>>,
                    !.pc = "idle", !.arg = <<>>, !.mutex = 0]
       \/ /\ st.full
          /\ st' = [Issue(st, "COMMIT", SQLITE_IOERR) EXCEPT
                       !.thrown = SQLITE_IOERR, !.pc = "idle", !.arg = <<>>, !.mutex = 0]

\* db_commit(): COMMIT ends the transaction and the call returns; when the
\* file cannot be written COMMIT fails, the engine may or may not have rolled
\* the transaction back, and the exception is caught.
txn_commit ==
    /\ st.pc = "db_commit"
    /\ \/ st' = [Issue(st, "COMMIT", SQLITE_OK) EXCEPT
                    !.autocommit = TRUE, !.snapshot = <<>>,
                    !.pc = "idle", !.arg = <<>>, !.mutex = 0]
       \/ /\ st.full
          /\ \E s \in {st, RolledBack(st)} :
                 st' = [Issue(s, "COMMIT", SQLITE_IOERR) EXCEPT
                           !.thrown = SQLITE_IOERR, !.pc = "db_rollback"]

\* The catch blocks: db_rollback(), then the exception leaves the method and
\* the guard unlocks the mutex. ROLLBACK fails when no transaction is open,
\* and then its own exception is the one that leaves.
txn_rollback ==
    /\ st.pc = "db_rollback"
    /\ st' = IF ~st.autocommit
             THEN [Issue(RolledBack(st), "ROLLBACK", SQLITE_OK) EXCEPT
                       !.pc = "idle", !.arg = <<>>, !.mutex = 0]
             ELSE [Issue(st, "ROLLBACK", SQLITE_ERROR) EXCEPT
                       !.thrown = SQLITE_ERROR, !.pc = "idle", !.arg = <<>>, !.mutex = 0]

NextTxn ==
    \/ st.mutex = 0 /\ \E p \in TxnPairs : Finish(db_insert(st, p[1], p[2]))
    \/ st.mutex = 0 /\ \E p \in TxnPairs, value_count \in 0..MaxCount :
                           Finish(db_set_value_count_key_value(st, p[1], p[2], value_count))
    \/ begin
    \/ commit
    \/ insert_in_transaction
    \/ txn_begin
    \/ txn_operation
    \/ txn_commit
    \/ txn_rollback
    \/ disk_full
    \/ disk_freed

SpecTxn == Init /\ [][NextTxn]_vars

----------------------------------------------------------------------------
(* reconcile of a flat container without a mode, step by step. st.arg holds *)
(* the source container, temp_container's items and the steps still to be   *)
(* run; st.issued the <<step, result code>> pairs of the running call, or   *)
(* of the one that just left.                                               *)

\* The source containers of this specification's calls.
StepContainers == {container \in FlatContainers : Len(container) < MaxLen}

\* A body that purges before it stages the source's keys and values.
purge_before_staging(container, items) ==
    <<<<"clear_temp_tables">>, <<"purge_old_data">>>>
    \o [i \in 1..Len(items) |-> <<"stage", items[i]>>]
    \o [i \in 1..Len(container) |-> <<"create", container[i]>>]
    \o <<<<"clear_temp_tables">>>>
    \o [i \in 1..Len(items) |-> <<"set_value_count", items[i]>>]

\* The statements of db_reconcile's try block in the order of the code, the
\* loops unrolled: one step for each item of the first loop over
\* temp_container, for each pair of the loop over the container and for each
\* item of the last loop.
ReconcileSteps(container, items) ==
    <<<<"clear_temp_tables">>>>
    \o [i \in 1..Len(items) |-> <<"stage", items[i]>>]
    \o [i \in 1..Len(container) |-> <<"create", container[i]>>]
    \o <<<<"purge_old_data">>, <<"clear_temp_tables">>>>
    \o [i \in 1..Len(items) |-> <<"set_value_count", items[i]>>]

\* One step of the body on the store.
RunStep(s, stmt) ==
    CASE stmt[1] = "clear_temp_tables" -> db_clear_temp_tables(s)
      [] stmt[1] = "stage" -> R(StageItems(s, <<stmt[2]>>), SQLITE_OK)
      [] stmt[1] = "create" -> CreatePairs(s, <<stmt[2]>>)
      [] stmt[1] = "purge_old_data" -> db_purge_old_data(s)
      [] stmt[1] = "set_value_count" -> R(SetItemCounts(s, <<stmt[2]>>), SQLITE_OK)

\* reconcile(container): the guard, then temp_container is filled.
reconcile_call ==
    /\ st.mutex = 0
    /\ \E container \in StepContainers : \E order \in Orders(KeysOf(container)) :
           LET items == FlatItems(CollectFlat(container, <<>>), order)
           IN /\ InBounds(db_reconcile(st, container, order).st)
              /\ st' = [lock_guard(st, 1) EXCEPT
                           !.pc = "db_reconcile",
                           !.arg = [container |-> container,
                                    todo |-> ReconcileSteps(container, items)],
                           !.issued = <<>>, !.thrown = SQLITE_OK]

\* The next step of the try block. An exception ends the call in
\* db_handle_reconcile_exception; after the last step the call returns.
reconcile_step ==
    /\ st.pc = "db_reconcile"
    /\ LET stmt == Head(st.arg.todo)
           r == RunStep(st, stmt)
           left == r.err # SQLITE_OK \/ Tail(st.arg.todo) = <<>>
       IN st' = [Issue(r.st, stmt[1], r.err) EXCEPT
                    !.thrown = r.err,
                    !.pc = IF left THEN "idle" ELSE "db_reconcile",
                    !.mutex = IF left THEN 0 ELSE @,
                    !.arg = IF left THEN <<>> ELSE [@ EXCEPT !.todo = Tail(@)]]

NextSteps ==
    \/ st.mutex = 0 /\ \E p \in Pairs : Finish(db_set_value_count_key_value(st, p[1], p[2], 0))
    \/ reconcile_call
    \/ reconcile_step

SpecSteps == Init /\ [][NextSteps]_vars

----------------------------------------------------------------------------
(* reconcile without a mode, whose failure leaves what it staged in the     *)
(* staging tables, and set_value_count / set_count with the count 0 that    *)
(* makes a later reconcile fail.                                            *)

reconcile_short ==
    \E container \in StepContainers :
        \E r \in Reconciled(st, container) : Finish(r)

set_count_zero ==
    \E p \in Pairs :
        \E r \in {db_set_value_count_key_value(st, p[1], p[2], 0)} : Finish(r)

NextLeftovers ==
    \/ reconcile_short
    \/ set_count_zero

SpecLeftovers == Init /\ [][NextLeftovers]_vars

----------------------------------------------------------------------------
(* The connection: set_config, get_config, connect, disconnect and the     *)
(* background task. A caller is thread 1, the task runs on thread 2.       *)

\* KeyMultiValueDB() and KeyMultiValueDB(config): no handle, and with a
\* configuration given the constructor has called set_config.
InitConnect ==
    \E given \in BOOLEAN : \E config \in (IF given THEN Configs ELSE {DefaultConfig}) :
        st = [Connected EXCEPT !.m_sqlite_db = 0, !.handles = {}, !.seq_handles = 0,
                               !.m_config_new = config, !.m_config_update = given]

\* A set_config that writes the active configuration at once.
set_config_at_once(s, config) ==
    [s EXCEPT !.m_config_new = config, !.m_config = config, !.m_config_update = TRUE]

set_config(s, config) ==
    [s EXCEPT !.m_config_new = config, !.m_config_update = TRUE]

get_config(s) == s.m_config

\* sqlite3_close_v2(db): nothing for a null pointer; a handle that still has
\* prepared statements which were not finalized is not deallocated, it stays
\* open in the engine until they are. SqliteStmt::init overwrites m_stmt
\* without finalizing it and nothing finalizes a statement before the close.
sqlite3_close_v2(handles, db) == {h \in handles : h.id # db \/ h.stmts}

\* What can happen in the try block of connect(): every step succeeds, or one
\* of them throws.
Outcomes == {"ok", "db_create_directories", "db_open", "db_init"}

\* m_future.wait_for(..) is not timeout (m_future is not valid, or its task
\* has finished).
ready(s) == IF s.m_future = 0 THEN TRUE ELSE s.tasks[s.m_future] = "done"

\* The assignment to m_future at the end of db_init: the new task is already
\* running; releasing the last reference to the task m_future referred to
\* waits until that task has finished.
assign_future(s, h) ==
    IF ~ready(s)
    THEN [s EXCEPT !.pc = "assign_future", !.arg = <<h>>, !.mutex = 1]
    ELSE [s EXCEPT !.m_future = h]

\* connect() up to its return, its exception or the wait in db_init.
connect(s, outcome) ==
    IF s.m_sqlite_db = 0 /\ ~s.m_config_update THEN R(s, NO_CODE)
    ELSE IF ~s.m_config_update THEN R(s, SQLITE_OK)
    ELSE LET closed == [s EXCEPT !.handles = sqlite3_close_v2(@, s.m_sqlite_db),
                                 !.m_sqlite_db = 0,
                                 !.m_config = s.m_config_new,
                                 !.m_config_update = FALSE]
             db == s.seq_handles + 1
             opened == [closed EXCEPT !.seq_handles = db]
             prepared == [opened EXCEPT
                 !.handles = @ \cup {[id |-> db, config |-> s.m_config_new, stmts |-> TRUE]}]
         IN CASE outcome = "db_create_directories" -> R(closed, NO_CODE)
              [] outcome = "db_open" -> R(opened, NO_CODE)
              [] outcome = "db_init" -> R(prepared, SQLITE_ERROR)
              [] outcome = "ok" ->
                     LET s1 == [prepared EXCEPT !.m_sqlite_db = db]
                     IN IF s.m_config_new.use_async
                        THEN R(assign_future([s1 EXCEPT !.tasks[db] = "start"], db), SQLITE_OK)
                        ELSE R(s1, SQLITE_OK)

set_config_call ==
    \E config \in Configs : st' = set_config(st, config)

connect_call ==
    /\ st.pc = "idle"
    /\ st.mutex = 0
    /\ st.seq_handles < MaxHandles
    /\ \E outcome \in Outcomes :
           LET r == connect(st, outcome)
           IN st' = [r.st EXCEPT !.thrown = r.err]

\* The task m_future referred to has finished: the assignment ends, connect()
\* returns and the guard unlocks the mutex.
connect_return ==
    /\ st.pc = "assign_future"
    /\ ready(st)
    /\ st' = [st EXCEPT !.m_future = st.arg[1], !.pc = "idle", !.arg = <<>>, !.mutex = 0]

\* disconnect(): the guard; nothing more without a handle; else the close and
\* then the loop on m_future.wait_for, with the mutex still locked.
disconnect_call ==
    /\ st.pc = "idle"
    /\ st.mutex = 0
    /\ st' = IF st.m_sqlite_db = 0 THEN [st EXCEPT !.thrown = SQLITE_OK]
             ELSE [st EXCEPT !.handles = sqlite3_close_v2(@, st.m_sqlite_db),
                             !.m_sqlite_db = 0, !.thrown = SQLITE_OK,
                             !.pc = "wait_for", !.mutex = 1]

\* The loop ends when m_future is not valid or its task has finished; then
\* disconnect() returns.
disconnect_return ==
    /\ st.pc = "wait_for"
    /\ ready(st)
    /\ st' = [st EXCEPT !.pc = "idle", !.mutex = 0]

\* A process() that works on the instance: it locks m_sqlite_mutex as the
\* public methods do, unlocks it and returns; then its future is ready.
process_lock(h) ==
    /\ st.tasks[h] = "start"
    /\ st.mutex = 0
    /\ st' = [lock_guard(st, 2) EXCEPT !.tasks[h] = "locked"]

process_unlock(h) ==
    /\ st.tasks[h] = "locked"
    /\ st' = [st EXCEPT !.tasks[h] = "unlocked", !.mutex = 0]

process_return(h) ==
    /\ st.tasks[h] = "unlocked"
    /\ st' = [st EXCEPT !.tasks[h] = "done"]

NextConnect ==
    \/ set_config_call
    \/ connect_call
    \/ connect_return
    \/ disconnect_call
    \/ disconnect_return
    \/ \E h \in Handles : process_lock(h)
    \/ \E h \in Handles : process_unlock(h)
    \/ \E h \in Handles : process_return(h)

SpecConnect == InitConnect /\ [][NextConnect]_vars

\* The threads keep running: a task that can lock the mutex does, a task
\* holding it returns, and a wait that can end ends. Nothing obliges a caller
\* to call.
SpecConnectFair ==
    /\ SpecConnect
    /\ WF_vars(connect_return)
    /\ WF_vars(disconnect_return)
    /\ \A h \in Handles : /\ WF_vars(process_lock(h))
                           /\ WF_vars(process_unlock(h))
                           /\ WF_vars(process_return(h))

----------------------------------------------------------------------------
(* What a caller reads from the store and from a source container *)

\* The number of times pair p occurs in a flat container.
Occurrences(container, p) ==
    Cardinality({i \in 1..Len(container) : container[i] = p})

\* The number of times value occurs in the collection mapped to key.
RECURSIVE OccurrencesNested(_, _, _)
OccurrencesNested(container, key, value) ==
    IF container = <<>> THEN 0
    ELSE LET values == Head(container)[2]
             here == IF Head(container)[1] = key
                     THEN Cardinality({j \in 1..Len(values) : values[j] = value})
                     ELSE 0
         IN here + OccurrencesNested(Tail(container), key, value)

\* The values of a flat container's pairs.
PairValues(container) == {container[i][2] : i \in 1..Len(container)}

\* A key -> collection container without its entries with an empty collection.
WithoutEmpty(container) == SelectSeq(container, LAMBDA e : e[2] # <<>>)

\* get_value_count(key, value): the count of the pair's row, 0 without a row.
StoredCount(s, p) == db_get_value_count_key_value(s, p[1], p[2])

DistinctPairs(container) == {container[i] : i \in 1..Len(container)}

\* The (key, value) pairs that have a key_value_store row.
AssociationPairs(s) == {<<t[1], t[2]>> : t \in LoadRows(s)}

KeyTable(s) == {r.key : r \in s.keys_store}

ValueTable(s) == {r.value : r \in s.values_store}

\* The content of the Key, Value and Association tables as a caller reads it:
\* the keys, the values and the (key, value, count) triples.
Content(s) == <<KeyTable(s), ValueTable(s), LoadRows(s)>>

\* The persisted Key, Value and Association tables.
Persisted(s) == <<s.keys_store, s.values_store, s.key_value_store>>

----------------------------------------------------------------------------
(* reconcile: the claims *)

\* C1: from every reachable state and for every flat source container, a
\* reconcile that returns normally leaves exactly the distinct pairs of the
\* container as the pairs with a key_value_store row.
C1_PairsAreSourcePairs ==
    \A container \in FlatContainers :
        \A r \in Reconciled(st, container) :
            r.err = SQLITE_OK => AssociationPairs(r.st) = DistinctPairs(container)

\* C2: after a reconcile of a flat container that returns normally, every
\* key_value_store row holds as value_count the number of occurrences of its
\* pair in the container.
C2_CountsAreOccurrences ==
    \A container \in FlatContainers :
        \A r \in Reconciled(st, container) :
            r.err = SQLITE_OK =>
                \A t \in LoadRows(r.st) : t[3] = Occurrences(container, <<t[1], t[2]>>)

\* C3: after a reconcile of a key -> collection container that returns
\* normally, every key_value_store row (k, v) holds as value_count the number
\* of times v occurs in the collection of k.
C3_NestedCountsAreOccurrences ==
    \A container \in NestedContainers :
        \A r \in ReconciledNested(st, container) :
            r.err = SQLITE_OK =>
                \A t \in LoadRows(r.st) : t[3] = OccurrencesNested(container, t[1], t[2])

\* C4: a reconcile that throws, called with or without a transaction mode,
\* leaves the Key, Value and Association tables as they were before the call.
C4_FailedReconcileChangesNothing ==
    \A container \in FlatContainers, txn \in BOOLEAN :
        \A r0 \in Reconciled(st, container) :
            LET r == Run(st, r0, txn)
            IN r.err # SQLITE_OK => Persisted(r.st) = Persisted(st)

\* C5: after a reconcile of a flat container that returns normally, db_load
\* into a multimap gives every pair as many times as the container holds it.
C5_LoadGivesSource ==
    \A container \in FlatContainers :
        \A r \in Reconciled(st, container) :
            r.err = SQLITE_OK =>
                db_load(r.st) = [p \in Pairs |-> Occurrences(container, p)]

\* C6: from every reachable state, when reconcile of a flat container
\* returns normally and is called again with the same container, the second
\* call returns normally too and the content read after it is the content
\* read after the first.
C6_ReconcileIdempotent ==
    \A container \in FlatContainers :
        \A r1 \in Reconciled(st, container) :
            r1.err = SQLITE_OK =>
                \A r2 \in Reconciled(r1.st, container) :
                    r2.err = SQLITE_OK /\ Content(r2.st) = Content(r1.st)

\* C7: from every reachable state and for every flat container, a reconcile
\* that returns normally leaves the keys of the container, and no others, in
\* keys_store and the values of the container, and no others, in
\* values_store.
C7_TablesHoldSourceKeysAndValues ==
    \A container \in FlatContainers :
        \A r \in Reconciled(st, container) :
            r.err = SQLITE_OK =>
                /\ KeyTable(r.st) = KeysOf(container)
                /\ ValueTable(r.st) = PairValues(container)

\* A state that holds a key and a value with a row between them, from which
\* reconcile of a container with neither that key nor that value returns
\* normally: both are purged and the container's own are created.
C7_Witness ==
    \E container \in FlatContainers :
        /\ container # <<>>
        /\ \E t \in LoadRows(st) : t[1] \notin KeysOf(container) /\ t[2] \notin PairValues(container)
        /\ \E r \in Reconciled(st, container) :
               r.err = SQLITE_OK /\ KeyTable(r.st) # KeyTable(st) /\ ValueTable(r.st) # ValueTable(st)

\* C8: from every reachable state, reconcile of an empty container (of
\* pairs, or of key -> collection entries), with or without a transaction
\* mode, returns normally and leaves keys_store, values_store and
\* key_value_store empty.
C8_EmptySourceEmptiesTables ==
    \A txn \in BOOLEAN :
        \A r \in {Run(st, r0, txn) :
                     r0 \in Reconciled(st, <<>>) \cup ReconciledNested(st, <<>>)} :
            /\ r.err = SQLITE_OK
            /\ Persisted(r.st) = <<{}, {}, {}>>

\* A state with two keys, two values and rows between them, one of them with
\* count 0, which the empty reconcile wipes.
C8_Witness ==
    /\ Cardinality(st.keys_store) = 2
    /\ Cardinality(st.values_store) = 2
    /\ Cardinality(st.key_value_store) >= 2
    /\ \E r \in st.key_value_store : r.value_count = 0
    /\ \A r \in Reconciled(st, <<>>) : Persisted(r.st) = <<{}, {}, {}>>

\* C9: from every reachable state, reconcile of a key -> collection container
\* does what reconcile of the container without its empty collections does
\* (the same results, normal or not), and when it returns normally no
\* keys_store row is left for a key whose collection is empty.
C9_EmptyCollectionIgnored ==
    \A container \in NestedContainers :
        /\ ReconciledNested(st, container) = ReconciledNested(st, WithoutEmpty(container))
        /\ \A r \in ReconciledNested(st, container) :
               r.err = SQLITE_OK =>
                   \A i \in 1..Len(container) :
                       container[i][2] = <<>> => container[i][1] \notin KeyTable(r.st)

\* A state where a key has a row, from which reconcile of a container that
\* maps this key to an empty collection and another key to a value returns
\* normally.
C9_Witness ==
    \E container \in NestedContainers :
        /\ \E i \in 1..Len(container) :
               /\ container[i][2] = <<>>
               /\ \E t \in LoadRows(st) : t[1] = container[i][1]
        /\ \E r \in ReconciledNested(st, container) :
               r.err = SQLITE_OK /\ r.st.key_value_store # {}

----------------------------------------------------------------------------
(* append: the claims *)

\* C10: from every reachable state, an append that returns normally (of a
\* flat container, or of a key -> collection container) leaves each pair of
\* the container with the count it had before (0 without a row) plus the
\* number of its occurrences in the container.
C10_AppendAddsOccurrences ==
    /\ \A container \in FlatContainers :
           LET r == db_append(st, container)
           IN r.err = SQLITE_OK =>
                  \A p \in DistinctPairs(container) :
                      StoredCount(r.st, p) = StoredCount(st, p) + Occurrences(container, p)
    /\ \A container \in NestedContainers :
           LET r == db_append_nested(st, container)
           IN r.err = SQLITE_OK =>
                  \A key \in KeysOf(container), value \in ValuesOf(container) :
                      StoredCount(r.st, <<key, value>>) =
                          StoredCount(st, <<key, value>>)
                              + OccurrencesNested(container, key, value)

----------------------------------------------------------------------------
(* insert and append: the claims *)

\* What insert(key, value), append of a flat container and append of a
\* key -> collection container may leave, by either overload, each with the
\* pairs of its argument.
Additions(s) ==
    {<<Run(s, db_insert(s, p[1], p[2]), txn), {p}>> : p \in Pairs, txn \in BOOLEAN}
    \cup {<<Run(s, db_append(s, container), txn), DistinctPairs(container)>> :
              container \in FlatContainers, txn \in BOOLEAN}
    \cup {<<Run(s, db_append_nested(s, container), txn),
             {p \in Pairs : OccurrencesNested(container, p[1], p[2]) > 0}>> :
              container \in NestedContainers, txn \in BOOLEAN}

\* The (key, value) pair of a key_value_store row.
RowPair(s, row) ==
    <<(CHOOSE k \in s.keys_store : k.id = row.key_id).key,
      (CHOOSE v \in s.values_store : v.id = row.value_id).value>>

----------------------------------------------------------------------------
(* Transactions: the claims *)

\* C12: every overload of reconcile, append and clear, with or without a
\* transaction mode, runs its statements after a BEGIN and before the COMMIT
\* or ROLLBACK that matches it, so that a call that throws leaves the Key,
\* Value and Association tables as they were at the BEGIN.
C12_OverloadsRunInTransaction ==
    \A txn \in BOOLEAN, container \in FlatContainers :
        \A r0 \in {db_append(st, container), db_clear(st)} \cup Reconciled(st, container) :
            LET statements == TransactionStatements(txn, r0.err)
                r == Run(st, r0, txn)
            IN /\ Len(statements) = 2
               /\ statements[1] = "BEGIN"
               /\ statements[2] \in {"COMMIT", "ROLLBACK"}
               /\ r.err # SQLITE_OK => Persisted(r.st) = Persisted(st)

\* C13: from every reachable state, whatever a second store instance on the
\* same file loads while a reconcile (with or without a transaction mode,
\* returning normally or throwing) runs is either what load gave before the
\* call or what load gives after it.
C13_ReaderSeesBeforeOrAfter ==
    \A container \in FlatContainers, txn \in BOOLEAN :
        \A order \in Orders(KeysOf(container)) :
            LET after == Run(st, db_reconcile(st, container, order), txn).st
            IN \A seen \in ReadableDuring(st, container, order, txn) :
                   db_load(seen) \in {db_load(st), db_load(after)}

----------------------------------------------------------------------------
(* Busy database: the claims *)

\* C14: no call of insert ends with an exception that carries SQLITE_BUSY:
\* a step that finds the file locked by another connection is taken again
\* after the delay, for the inserting statements and for the key id, value
\* id and count lookups alike.
C14_BusyIsRetried == st.thrown # SQLITE_BUSY

----------------------------------------------------------------------------
(* Threads: the claims *)

\* C15: a thread that is inside the bind / step / reset sequence of a public
\* method of the instance holds the instance mutex, so no two threads are
\* inside such a sequence at the same time.
C15_CallsHoldMutex ==
    /\ \A t \in Threads : st.running[t] # "idle" => st.mutex = t
    /\ \A t, u \in Threads :
           st.running[t] # "idle" /\ st.running[u] # "idle" => t = u

----------------------------------------------------------------------------
(* Lookups that find nothing: the claims *)

\* C16: from every reachable state, a reconcile (of a flat or of a
\* key -> collection container) during which another instance removes a key
\* of the container, so that the key id lookup of the loop that follows
\* finds nothing, ends with an exception.
C16_NotFoundFailsReconcile ==
    \A at \in {"create", "count"} :
        /\ \A container \in FlatContainers :
               \A order \in Orders(KeysOf(container)), key \in KeysOf(container) :
                   db_reconcile_body(
                       st, container, FlatItems(CollectFlat(container, <<>>), order),
                       FALSE, <<at, key>>).err # SQLITE_OK
        /\ \A container \in NestedContainers :
               \A order \in Orders(DOMAIN CollectNested(container, <<>>)),
                  vorder \in Orders(ValuesOf(container)),
                  key \in KeysOf(WithoutEmpty(container)) :
                   db_reconcile_body(
                       st, container,
                       NestedItems(CollectNested(container, <<>>), order, vorder),
                       TRUE, <<at, key>>).err # SQLITE_OK

----------------------------------------------------------------------------
(* The tables in every reachable state: the claims *)

\* C17: in every reachable state, the key_id of every key_value_store row
\* is the id of a keys_store row and its value_id is the id of a
\* values_store row.
C17_ReferentialIntegrity ==
    \A row \in st.key_value_store :
        /\ \E k \in st.keys_store : k.id = row.key_id
        /\ \E v \in st.values_store : v.id = row.value_id

\* A state with a key whose rows remove(key) deletes with it, after another
\* key was removed with its rows: the insert statement is still bound to
\* that key's id, which no keys_store row has any more.
C17_Witness ==
    /\ \E key \in KeyT :
           db_remove_all_values(st, key).st.key_value_store # st.key_value_store
    /\ st.insert_key_value_stmt # <<>>
    /\ \A k \in st.keys_store : k.id # st.insert_key_value_stmt[1]

\* C18: in every reachable state no two keys_store rows have the same key
\* or the same id, no two values_store rows the same value or the same id,
\* and no two key_value_store rows the same (key_id, value_id).
C18_RowsAreUnique ==
    /\ \A k1, k2 \in st.keys_store : k1.key = k2.key \/ k1.id = k2.id => k1 = k2
    /\ \A v1, v2 \in st.values_store : v1.value = v2.value \/ v1.id = v2.id => v1 = v2
    /\ \A r1, r2 \in st.key_value_store :
           r1.key_id = r2.key_id /\ r1.value_id = r2.value_id => r1 = r2

\* A state where every key and every value has its row, every pair has its
\* row, and insert and append of pairs that are stored return normally.
C18_Witness ==
    /\ KeyTable(st) = KeyT
    /\ ValueTable(st) = ValueT
    /\ AssociationPairs(st) = Pairs
    /\ \E container \in FlatContainers :
           /\ Len(container) = MaxLen
           /\ db_append(st, container).err = SQLITE_OK

\* C19: in every reachable state every key_value_store row has a
\* value_count of at least 1.
C19_CountsAtLeastOne ==
    \A row \in st.key_value_store : row.value_count >= 1

----------------------------------------------------------------------------
(* Exceptions: the claims *)

\* C20: from every reachable state, when a statement step fails inside
\* insert, append or reconcile called with a transaction mode, the exception
\* that leaves the call carries the error code of that step.
C20_FirstFailingStepCode ==
    \A r0 \in {db_insert(st, p[1], p[2]) : p \in Pairs}
               \cup {db_append(st, container) : container \in FlatContainers}
               \cup UNION {Reconciled(st, container) : container \in FlatContainers} :
        r0.err \notin {SQLITE_OK, NO_CODE} =>
            execute_in_transaction(st, r0).err = r0.err

----------------------------------------------------------------------------
(* The single-pair and single-key operations: the claims *)

\* C21: from every reachable state, insert(key, value) by either overload
\* returns normally and leaves the pair with the count it had (0 without a
\* row) plus 1, a keys_store row for key, a values_store row for value, and
\* every other pair with the count it had.
C21_InsertCountsOne ==
    \A p \in Pairs, txn \in BOOLEAN :
        LET r == Run(st, db_insert(st, p[1], p[2]), txn)
        IN /\ r.err = SQLITE_OK
           /\ p \in AssociationPairs(r.st)
           /\ StoredCount(r.st, p) = StoredCount(st, p) + 1
           /\ \A q \in Pairs \ {p} :
                  /\ StoredCount(r.st, q) = StoredCount(st, q)
                  /\ q \in AssociationPairs(r.st) <=> q \in AssociationPairs(st)


\* C22: from every reachable state, for every key and whatever the container
\* passed as `values` holds before the call, find(key, values) returns true
\* exactly when the store holds an Association row for key.
C22_FindTellsWhetherStored ==
    \A key \in KeyT, values \in ValueContainers :
        db_find(st, key, values).found <=> \E p \in AssociationPairs(st) : p[1] = key


\* C23: from every reachable state and for every key -> collection container,
\* append by either overload leaves the Key table, count() and the loaded
\* content as the same append leaves them without the container's entries
\* whose collection is empty.
C23_EmptyCollectionIgnored ==
    \A container \in NestedContainers, txn \in BOOLEAN :
        LET r == Run(st, db_append_nested(st, container), txn)
            r0 == Run(st, db_append_nested(st, WithoutEmpty(container)), txn)
        IN /\ r.err = r0.err
           /\ KeyTable(r.st) = KeyTable(r0.st)
           /\ db_count_key(r.st) = db_count_key(r0.st)
           /\ db_load(r.st) = db_load(r0.st)


\* The key_value_store rows of the pair p.
PairRows(s, p) ==
    {r \in s.key_value_store :
        r.key_id = db_get_key_id(s, p[1]) /\ r.value_id = db_get_value_id(s, p[2])}

\* C24: from every reachable state and for every pair, remove(key, value)
\* returns normally, leaves no key_value_store row of the pair whatever its
\* count was (get_value_count is 0 afterwards), leaves every other
\* key_value_store row, every keys_store row and every values_store row as it
\* was, and changes nothing at all when the pair has no row.
C24_RemovePairDeletesRow ==
    \A p \in Pairs :
        LET r == db_remove_key_value(st, p[1], p[2])
        IN /\ r.err = SQLITE_OK
           /\ StoredCount(r.st, p) = 0
           /\ p \notin AssociationPairs(r.st)
           /\ r.st.key_value_store = st.key_value_store \ PairRows(st, p)
           /\ r.st.keys_store = st.keys_store
           /\ r.st.values_store = st.values_store
           /\ PairRows(st, p) = {} => r.st = st

\* A pair stored with a count above 1 is removed while another pair of the
\* same key has a row.
C24_Witness ==
    \E p \in Pairs, q \in Pairs :
        /\ p # q /\ p[1] = q[1]
        /\ StoredCount(st, p) > 1
        /\ q \in AssociationPairs(st)
        /\ q \in AssociationPairs(db_remove_key_value(st, p[1], p[2]).st)


\* The key_value_store rows of key.
KeyRows(s, key) == {r \in s.key_value_store : r.key_id = db_get_key_id(s, key)}

\* C25: from every reachable state and for every key, remove(key) returns
\* normally and leaves no keys_store row and no key_value_store row of key:
\* find(key, values) into an empty container is false and count() is one less
\* if key had a keys_store row and the same otherwise; every other keys_store
\* row, every key_value_store row of another key and every values_store row
\* is as it was.
C25_RemoveKeyDeletesItsRows ==
    \A key \in KeyT :
        LET r == db_remove_all_values(st, key)
            stored == IF key \in KeyTable(st) THEN 1 ELSE 0
        IN /\ r.err = SQLITE_OK
           /\ key \notin KeyTable(r.st)
           /\ \A p \in AssociationPairs(r.st) : p[1] # key
           /\ ~db_find(r.st, key, [value \in ValueT |-> 0]).found
           /\ db_count_key(r.st) = db_count_key(st) - stored
           /\ r.st.keys_store = {k \in st.keys_store : k.key # key}
           /\ r.st.key_value_store = st.key_value_store \ KeyRows(st, key)
           /\ r.st.values_store = st.values_store

\* A key with two key_value_store rows is removed while another key has a row.
C25_Witness ==
    \E key \in KeyT, other \in KeyT :
        /\ key # other
        /\ Cardinality(KeyRows(st, key)) = 2
        /\ KeyRows(st, other) # {}
        /\ KeyRows(db_remove_all_values(st, key).st, other) = KeyRows(st, other)


\* C26: from every reachable state, for every pair and every count n that a
\* std::size_t holds, set_value_count(key, value, n) returns normally; when
\* the pair has a key_value_store row, get_value_count(key, value) then
\* returns n and every other row of the three tables is as it was; when it
\* has none, nothing changes and get_value_count(key, value) returns 0.
C26_SetThenGetValueCount ==
    \A p \in Pairs, n \in SizeT :
        LET r == db_set_value_count_key_value(st, p[1], p[2], n)
        IN /\ r.err = SQLITE_OK
           /\ r.st.keys_store = st.keys_store
           /\ r.st.values_store = st.values_store
           /\ r.st.key_value_store \ PairRows(r.st, p) = st.key_value_store \ PairRows(st, p)
           /\ PairRows(st, p) # {} =>
                  /\ StoredCount(r.st, p) = n
                  /\ Cardinality(PairRows(r.st, p)) = 1
           /\ PairRows(st, p) = {} =>
                  /\ r.st = st
                  /\ StoredCount(r.st, p) = 0

\* A stored pair gets a count it did not have, beside another pair of the
\* same key whose row keeps its count.
C26_Witness ==
    \E p \in Pairs, q \in Pairs :
        /\ p # q /\ p[1] = q[1]
        /\ PairRows(st, p) # {} /\ PairRows(st, q) # {}
        /\ \E n \in SizeT :
               LET r == db_set_value_count_key_value(st, p[1], p[2], n)
               IN /\ n # StoredCount(st, p) /\ n # StoredCount(st, q)
                  /\ StoredCount(r.st, p) = n
                  /\ StoredCount(r.st, q) = StoredCount(st, q)


\* C27: from every reachable state, a clear() by either overload that returns
\* normally leaves keys_store, values_store and key_value_store empty: count()
\* is 0 and load returns no pair.
C27_ClearEmptiesTables ==
    \A txn \in BOOLEAN :
        LET r == Run(st, db_clear(st), txn)
        IN r.err = SQLITE_OK =>
               /\ r.st.keys_store = {}
               /\ r.st.values_store = {}
               /\ r.st.key_value_store = {}
               /\ db_count_key(r.st) = 0
               /\ \A p \in Pairs : db_load(r.st)[p] = 0

\* clear() returns normally on a store with rows in all three tables, one of
\* them a Key row without any key_value_store row.
C27_Witness ==
    /\ st.key_value_store # {}
    /\ \E k \in st.keys_store : \A r \in st.key_value_store : r.key_id # k.id
    /\ \A txn \in BOOLEAN : Run(st, db_clear(st), txn).err = SQLITE_OK


----------------------------------------------------------------------------
(* execute_in_transaction: the claims *)

\* The statements of st.issued, in the order of their execution.
Statements == [i \in 1..Len(st.issued) |-> st.issued[i][1]]

\* The call that issued st.issued has returned or thrown.
Left == st.pc = "idle" /\ st.issued # <<>>

\* C28, as stated: a call of execute_in_transaction whose BEGIN succeeded
\* and whose operation returned has issued exactly BEGIN, the operation and
\* COMMIT when it leaves; one whose operation threw has issued exactly BEGIN,
\* the operation and one ROLLBACK; either way no transaction is open and the
\* mutex is free when it leaves.
C28_BeginOperationCommit ==
    (Left /\ Len(st.issued) >= 2 /\ st.issued[2][1] = "operation") =>
        /\ st.issued[2][2] = SQLITE_OK => Statements = <<"BEGIN", "operation", "COMMIT">>
        /\ st.issued[2][2] # SQLITE_OK => Statements = <<"BEGIN", "operation", "ROLLBACK">>
        /\ st.autocommit
        /\ st.mutex = 0

\* C28, amended: a call whose BEGIN succeeded leaves with exactly BEGIN, the
\* operation and a successful COMMIT issued when it returns; with exactly
\* BEGIN, the operation and one ROLLBACK when the operation threw; with
\* exactly BEGIN, the operation, the failed COMMIT and one ROLLBACK when
\* COMMIT threw. The mutex is held from the call to its leaving, and when it
\* leaves no transaction is open and the mutex is free.
C28_RollbackAlsoAfterCommit ==
    /\ st.pc # "idle" => st.mutex # 0
    /\ Left => st.autocommit /\ st.mutex = 0
    /\ (Left /\ Len(st.issued) >= 2 /\ st.issued[2][1] = "operation") =>
           /\ st.thrown = SQLITE_OK =>
                  st.issued = <<<<"BEGIN", SQLITE_OK>>, <<"operation", SQLITE_OK>>,
                                <<"COMMIT", SQLITE_OK>>>>
           /\ st.issued[2][2] # SQLITE_OK =>
                  /\ Statements = <<"BEGIN", "operation", "ROLLBACK">>
                  /\ st.thrown # SQLITE_OK
           /\ (st.issued[2][2] = SQLITE_OK /\ st.thrown # SQLITE_OK) =>
                  /\ Statements = <<"BEGIN", "operation", "COMMIT", "ROLLBACK">>
                  /\ st.issued[3][2] # SQLITE_OK

\* A call has left after its COMMIT failed with the transaction still open:
\* the ROLLBACK that followed succeeded.
C28_Witness ==
    /\ Left
    /\ Statements = <<"BEGIN", "operation", "COMMIT", "ROLLBACK">>
    /\ st.issued[4][2] = SQLITE_OK


----------------------------------------------------------------------------
(* reconcile: its statements and its steps *)

\* C29: from every reachable state in which m_stmt_insert_key_value is reset,
\* a reconcile (flat or key -> collection source, either overload) that
\* throws leaves m_stmt_insert_key_value reset and without bindings, as it
\* leaves every other statement it uses.
C29_StatementsResetOnFailure ==
    st.insert_key_value_stmt = <<>> =>
        \A txn \in BOOLEAN :
            /\ \A container \in FlatContainers :
                   \A r \in Reconciled(st, container) :
                       Run(st, r, txn).err # SQLITE_OK =>
                           Run(st, r, txn).st.insert_key_value_stmt = <<>>
            /\ \A container \in NestedContainers :
                   \A r \in ReconciledNested(st, container) :
                       Run(st, r, txn).err # SQLITE_OK =>
                           Run(st, r, txn).st.insert_key_value_stmt = <<>>


\* C30: in the steps of one reconcile, as far as it has come: the first step
\* clears the staging tables; no staging insert follows the purge, and the
\* purge finds in the staging tables exactly the keys and the values of the
\* source; no count is set before the purge; and no count is set after the
\* purge before the staging tables were cleared again, so that a reconcile
\* that returns leaves them empty.
C30_StepsInOrder ==
    LET steps == Statements
        n == Len(steps)
        purge == {i \in 1..n : steps[i] = "purge_old_data"}
    IN /\ n > 0 => steps[1] = "clear_temp_tables"
       /\ Cardinality(purge) <= 1
       /\ \A i \in 1..n, j \in purge : steps[i] = "stage" => i < j
       /\ \A i \in 1..n, j \in purge : steps[i] = "set_value_count" => j < i
       /\ \A i \in 1..n, j \in purge :
              steps[i] = "set_value_count" =>
                  \E k \in (j + 1)..(i - 1) : steps[k] = "clear_temp_tables"
       /\ (st.pc = "db_reconcile" /\ Head(st.arg.todo)[1] = "purge_old_data") =>
              /\ st.keys_temp_store = KeysOf(st.arg.container)
              /\ st.values_temp_store = PairValues(st.arg.container)
       /\ (Left /\ st.thrown = SQLITE_OK) =>
              /\ st.keys_temp_store = {} /\ st.values_temp_store = {}
              /\ \E j \in purge : steps[j + 1] = "clear_temp_tables"

\* A reconcile that found rows of an earlier, failed call in the staging
\* tables has staged two keys, purged and set a count.
C30_Witness ==
    /\ st.pc = "db_reconcile"
    /\ Cardinality({i \in 1..Len(st.issued) : st.issued[i][1] = "stage"}) = 2
    /\ \E i \in 1..Len(st.issued) : st.issued[i][1] = "set_value_count"
    /\ st.insert_key_value_stmt # <<>>


\* The store when the pair-creation loop of a reconcile of `container`
\* starts: staging tables cleared, keys and values of the source inserted.
Staged(s, container, order) ==
    StageItems(db_clear_temp_tables(s).st, FlatItems(CollectFlat(container, <<>>), order))

\* C31: from every reachable state, for every flat source container and
\* every pair of it, the pair-creation step of reconcile completes, inserts
\* a key_value_store row for the pair (with count 1) exactly when the pair
\* has no row, whatever count an existing row holds, and leaves every row
\* that existed as it was.
C31_PairCreatedIffNoRow ==
    \A container \in FlatContainers : \A order \in Orders(KeysOf(container)) :
        \A i \in 1..Len(container) :
            LET s == Staged(st, container, order)
                p == container[i]
                r == CreatePairs(s, <<p>>)
            IN /\ r.err = SQLITE_OK
               /\ PairRows(s, p) # {} => r.st.key_value_store = s.key_value_store
               /\ PairRows(s, p) = {} =>
                      /\ r.st.key_value_store \ s.key_value_store = PairRows(r.st, p)
                      /\ s.key_value_store \subseteq r.st.key_value_store
                      /\ StoredCount(r.st, p) = 1


\* The store with both staging tables empty.
WithoutStaged(s) == [s EXCEPT !.keys_temp_store = {}, !.values_temp_store = {}]

\* C32: from every reachable state, whatever the staging tables hold, a
\* reconcile of a flat container (either overload) does what it does from the
\* same store with empty staging tables: the same result code and, when it
\* returns normally, the same store, with both staging tables empty.
C32_StagingLeftoversIgnored ==
    \A container \in FlatContainers, txn \in BOOLEAN :
        \A order \in Orders(KeysOf(container)) :
            LET r == Run(st, db_reconcile(st, container, order), txn)
                r0 == Run(WithoutStaged(st),
                          db_reconcile(WithoutStaged(st), container, order), txn)
            IN /\ r.err = r0.err
               /\ r.err = SQLITE_OK =>
                      /\ r.st = r0.st
                      /\ r.st.keys_temp_store = {}
                      /\ r.st.values_temp_store = {}

\* The staging tables hold a key and a value of an earlier reconcile that
\* failed, both still in the store, and a reconcile of a container with
\* neither returns normally.
C32_Witness ==
    \E container \in FlatContainers :
        /\ \E key \in st.keys_temp_store :
               key \in KeyTable(st) /\ key \notin KeysOf(container)
        /\ \E value \in st.values_temp_store :
               value \in ValueTable(st) /\ value \notin PairValues(container)
        /\ \A r \in Reconciled(st, container) : r.err = SQLITE_OK


----------------------------------------------------------------------------
(* The busy-retry loop: termination.                                       *)

\* C33: when the engine eventually stops answering busy (the other
\* connection eventually holds no lock for good), a call that was entered
\* eventually leaves, and it leaves by returning or with an exception whose
\* code is not SQLITE_BUSY: it neither blocks forever nor gives up on busy.
C33_BusyRetryTerminates ==
    (<>[](~st.other_lock)) =>
        ((st.pc # "idle") ~> (st.pc = "idle" /\ st.thrown # SQLITE_BUSY))


----------------------------------------------------------------------------
(* execute_in_transaction inside a transaction opened by begin().          *)

\* C34: when the BEGIN of execute_in_transaction has failed because a
\* transaction opened by begin() is still open, what the call does next
\* leaves that transaction as it was: still open, with the same tables and
\* the same changes to undo; and the call leaves without having run the
\* operation.
C34_FailedBeginLeavesTransaction ==
    [][(/\ st.pc = "db_rollback"
        /\ st.issued = <<<<"BEGIN", SQLITE_ERROR>>>>)
       => /\ st'.autocommit = st.autocommit
          /\ st'.snapshot = st.snapshot
          /\ TablesOf(st') = TablesOf(st)
          /\ \A i \in 1..Len(st'.issued) : st'.issued[i][1] # "operation"]_vars


----------------------------------------------------------------------------
(* count() and empty() against what load returns.                          *)

\* The keys of the pairs load returns.
LoadedKeys(s) == {p[1] : p \in {q \in Pairs : db_load(s)[q] > 0}}

\* C35: in every state the public operations reach, every row of keys_store
\* is referenced by a row of key_value_store, empty() is true exactly when
\* load returns no pair, and count() is the number of distinct keys among
\* the pairs load returns.
C35_EveryKeyHasAPair ==
    /\ \A k \in st.keys_store : \E r \in st.key_value_store : r.key_id = k.id
    /\ (db_count_key(st) = 0) <=> (LoadedKeys(st) = {})
    /\ db_count_key(st) = Cardinality(LoadedKeys(st))


----------------------------------------------------------------------------
(* The connection: the claims.                                             *)

\* No call is running on the instance and connect() may still open a handle.
CanConnect == st.pc = "idle" /\ st.mutex = 0 /\ st.seq_handles < MaxHandles

\* C36: set_config(config) stages the configuration and does nothing else:
\* get_config() returns what it returned before, the handle, the open
\* native handles and everything else of the instance are as they were;
\* and a connect() that succeeds has made the staged configuration the one
\* get_config() returns and has cleared the pending-update flag.
C36_SetConfigOnlyStages ==
    /\ \A config \in Configs :
           LET s == set_config(st, config)
           IN /\ get_config(s) = get_config(st)
              /\ s.m_config_new = config
              /\ s.m_config_update
              /\ [s EXCEPT !.m_config_new = st.m_config_new,
                           !.m_config_update = st.m_config_update] = st
    /\ CanConnect =>
           \A outcome \in Outcomes :
               LET r == connect(st, outcome)
               IN r.err = SQLITE_OK =>
                      /\ get_config(r.st) = st.m_config_new
                      /\ ~r.st.m_config_update

\* A connected instance with a staged configuration that differs from the
\* active one.
C36_Witness ==
    /\ CanConnect
    /\ st.m_sqlite_db # 0
    /\ st.m_config_update
    /\ st.m_config_new # st.m_config

\* C37: connect() on a connected instance with nothing pending returns and
\* changes nothing; with a configuration pending it closes the handle it
\* holds and holds a new one, opened with the staged configuration; and
\* never is more than one native handle of the instance open.
C37_OneHandlePerInstance ==
    /\ Cardinality(st.handles) <= 1
    /\ (CanConnect /\ st.m_sqlite_db # 0) =>
           IF ~st.m_config_update
           THEN \A outcome \in Outcomes : connect(st, outcome) = R(st, SQLITE_OK)
           ELSE LET s == connect(st, "ok").st
                IN /\ s.m_sqlite_db \notin {0, st.m_sqlite_db}
                   /\ \A h \in s.handles : h.id # st.m_sqlite_db
                   /\ \E h \in s.handles :
                          h.id = s.m_sqlite_db /\ h.config = st.m_config_new

\* C38: after a connect() that tried to open and threw, the instance holds
\* no handle, and the next connect(), with no set_config in between, tries
\* again with the same configuration: when nothing fails this time it
\* returns connected.
C38_ConnectAgainRetries ==
    (CanConnect /\ st.m_config_update /\ st.seq_handles + 1 < MaxHandles) =>
        \A outcome \in Outcomes \ {"ok"} :
            LET r == connect(st, outcome)
                again == connect(r.st, "ok")
            IN /\ r.err # SQLITE_OK
               /\ r.st.m_sqlite_db = 0
               /\ again.err = SQLITE_OK
               /\ again.st.m_sqlite_db # 0
               /\ get_config(again.st) = st.m_config_new

\* C39: a disconnect() that has closed the handle and waits for the
\* background task returns, the task being one that ends once it has had
\* the instance mutex.
C39_DisconnectReturns == (st.pc = "wait_for") ~> (st.pc = "idle")

====
